---- MODULE Spec2Model ----
(***************************************************************************)
(* A model of the terrain heightmap engine of slab-js: the grid adapters   *)
(* (src/src/util/core.ts), the pass composer and the heightmap generators  *)
(* (src/unnamed/part_002) and normalizeTerrain                             *)
(* (src/src/components/box.tsx).                                           *)
(*                                                                         *)
(* Numbers.  Elevations and heights are integers (one unit is the model's  *)
(* smallest elevation step).  0-based JavaScript indices are kept 0-based  *)
(* in the operators; a vertex array is a sequence, so vertex k of the code *)
(* is element k + 1 of the sequence.                                       *)
(***************************************************************************)
EXTENDS Integers, Sequences, FiniteSets, TLC

VARIABLES
    comp,       \* the entry point the caller exercises in this run
    pc,         \* the caller's position
    threw,      \* "none", or the error that reached the caller
    options,    \* the caller's TerrainOptions object
    g,          \* the vertex grid (Vector3[]), shared with the callee
    g0,         \* the grid as it was when the current call started
    arr,        \* the Float64Array[] toArray2D returned (<<>> before)
    arrEdited,  \* whether the caller changed arr after toArray2D returned
    options0,   \* the caller's options as they were when the call started
    passes,     \* the Pass[] handed to MultiPass
    seed,       \* selects the values Math.random() returns during the call
    calls,      \* the invocations the call made, in order
    cloned,     \* MultiPass's clonedOptions object as the call left it
    op,         \* the function the caller invoked ("none" before)
    ret,        \* what the call returned (<<>> when nothing)
    events,     \* the calls of seed, perlin and simplex the call made, in order
    buf         \* DiamondSquare's heightmap buffer as the call left it

vars == <<comp, pc, threw, options, g, g0, arr, arrEdited,
          options0, passes, seed, calls, cloned, op, ret, events, buf>>

(***************************************************************************)
(* Bounds of the model.                                                    *)
(***************************************************************************)
\* widthSegments and heightSegments range over 1..MaxSeg
MaxSeg == 3
\* vertices a grid may hold beyond (widthSegments+1)*(heightSegments+1)
MaxExtra == 1
\* initial elevation patterns 0..MaxPattern (pattern 0 is the all-zero grid)
MaxPattern == 2

SegRange == 1..MaxSeg

\* the sequence s with its elements evaluated
Strict(s) == SubSeq(s, 1, Len(s))

Min2(a, b) == IF a < b THEN a ELSE b
Max2(a, b) == IF a > b THEN a ELSE b

(***************************************************************************)
(* The vertex grid.  The caller places the vertices horizontally, row      *)
(* major: index = row * (widthSegments + 1) + col.                         *)
(***************************************************************************)
InitialZ(k, pat) == pat * (k + 1) * (IF k % 2 = 0 THEN 1 ELSE -1)

MakeGrid(ws, hs, extra, pat) ==
    [k1 \in 1..((ws + 1) * (hs + 1) + extra) |->
        [x |-> (k1 - 1) % (ws + 1),
         y |-> (k1 - 1) \div (ws + 1),
         z |-> InitialZ(k1 - 1, pat)]]

ZeroGrid(grid) == [k1 \in 1..Len(grid) |-> [grid[k1] EXCEPT !.z = 0]]

ExpectedLength(o) == (o.widthSegments + 1) * (o.heightSegments + 1)

\* The z channel of a grid
Elevations(grid) == [k1 \in 1..Len(grid) |-> grid[k1].z]

(***************************************************************************)
(* TerrainOptions (defaultTerrainOptions gives the shape of the record).   *)
(***************************************************************************)
MakeOptions(ws, hs, lo, hi, freq) ==
    [widthSegments |-> ws, heightSegments |-> hs,
     minHeight |-> lo, maxHeight |-> hi,
     frequency |-> freq, steps |-> <<1>>,
     stretch |-> TRUE, turbulent |-> FALSE,
     easing |-> "Linear", after |-> "undefined",
     width |-> ws, height |-> hs]

(***************************************************************************)
(* Grid adapters, src/src/util/core.ts                                     *)
(***************************************************************************)
\* toArray2D: tgt[i][j] = vertices[j * xl + i].z.  Reading .z of a vertex
\* the array does not hold throws a TypeError.
toArray2D(vertices, o) ==
    LET xl == o.widthSegments + 1
        yl == o.heightSegments + 1
    IN  IF xl * yl > Len(vertices)
        THEN [threw |-> "TypeError", tgt |-> <<>>]
        ELSE [threw |-> "none",
              tgt |-> [i1 \in 1..xl |->
                        [j1 \in 1..yl |-> vertices[(j1 - 1) * xl + (i1 - 1) + 1].z]]]

\* fromArray2D: for i, for j: vertices[j * xl + i].z = src[i][j], with
\* xl = src.length.  Writing .z of a vertex the array does not hold throws,
\* and the writes made before it stay.
RECURSIVE fromArray2DLoop(_, _, _, _)
fromArray2DLoop(vertices, src, i, j) ==
    LET xl == Len(src)
    IN  IF i >= xl THEN [threw |-> "none", g |-> vertices]
        ELSE IF j >= Len(src[i + 1]) THEN fromArray2DLoop(vertices, src, i + 1, 0)
        ELSE IF j * xl + i >= Len(vertices) THEN [threw |-> "TypeError", g |-> vertices]
        ELSE fromArray2DLoop([vertices EXCEPT ![j * xl + i + 1].z = src[i + 1][j + 1]],
                             src, i, j + 1)

\* A write-back that takes the buffer for row major: vertices[i * yl + j]
RECURSIVE fromArray2DRowMajorLoop(_, _, _, _)
fromArray2DRowMajorLoop(vertices, src, i, j) ==
    LET xl == Len(src)
    IN  IF i >= xl THEN [threw |-> "none", g |-> vertices]
        ELSE IF j >= Len(src[i + 1]) THEN fromArray2DRowMajorLoop(vertices, src, i + 1, 0)
        ELSE IF i * Len(src[i + 1]) + j >= Len(vertices)
             THEN [threw |-> "TypeError", g |-> vertices]
        ELSE fromArray2DRowMajorLoop(
                 [vertices EXCEPT ![i * Len(src[i + 1]) + j + 1].z = src[i + 1][j + 1]],
                 src, i, j + 1)

fromArray2DRowMajor(vertices, src) == fromArray2DRowMajorLoop(vertices, src, 0, 0)

fromArray2D(vertices, src) == fromArray2DLoop(vertices, src, 0, 0)

\* toArray1D: tgt[i] = vertices[i].z for every i < vertices.length
toArray1D(vertices) == [i1 \in 1..Len(vertices) |-> vertices[i1].z]

\* a variant that runs to the end of the source
fromArray1DSourceBound(vertices, src) == Len(src)

\* l = Math.min(vertices.length, src.length)
fromArray1DBound(vertices, src) ==
    IF Len(vertices) <= Len(src) THEN Len(vertices) ELSE Len(src)

\* fromArray1D: for (i < l) vertices[i].z = src[i].  Writing .z of a vertex
\* the array does not hold throws, and the writes made before it stay.
fromArray1D(vertices, src) ==
    LET l == fromArray1DBound(vertices, src)
        stop == IF l <= Len(vertices) THEN l ELSE Len(vertices)
    IN  [threw |-> IF stop < l THEN "TypeError" ELSE "none",
         g |-> [k1 \in 1..Len(vertices) |->
                  IF k1 <= stop THEN [vertices[k1] EXCEPT !.z = src[k1]]
                  ELSE vertices[k1]]]

(***************************************************************************)
(* Numbers of the generators.                                              *)
(*   - options.frequency and Pass.frequency are held in units of           *)
(*     1 / FreqDen, Pass.amplitude in units of 1 / AmpDen;                 *)
(*   - the n-th value (n = 0, 1, ...) Math.random() returns during a call  *)
(*     is Rand(r, n) / RandDen, a fraction in [0, 1); r selects the        *)
(*     stream;                                                             *)
(*   - Math.cos is a fixed-point triangle wave of the same period, range   *)
(*     and symmetry: CosPi(num, den) stands for                            *)
(*     cos(pi * num / den) * TrigScale.                                    *)
(***************************************************************************)
FreqDen == 4
AmpDen == 80
RandDen == 8
TrigScale == 16

Undefined == <<>>
IsUndefined(v) == v = <<>>

Rand(r, n) == ((r + 1) * (2 * n + 3) + n * n) % RandDen

CosPi(num, den) ==
    LET tm == num % (2 * den)
    IN  IF tm <= den
        THEN (TrigScale * (den - 2 * tm)) \div den
        ELSE (TrigScale * (2 * tm - 3 * den)) \div den

\* sin(pi * num / den) * TrigScale = cos(pi * num / den - pi / 2) * TrigScale
SinPi(num, den) == CosPi(2 * num - den, 2 * den)

(***************************************************************************)
(* The statement every generator ends on:                                  *)
(*     for (i < xl) for (j < yl) g[j * xl + i].z += delta(i, j)            *)
(* delta is a function on (0..xl-1) \X (0..yl-1).  A vertex the array does *)
(* not hold makes the statement throw a TypeError; the vertices the loop   *)
(* reached before it keep what was added.                                  *)
(***************************************************************************)
\* a variant that assigns instead of adding
SetElevation(z, d) == d

AddElevation(z, d) == z + d

SetMin(S) == CHOOSE m \in S: \A n \in S: m <= n
SetMax(S) == CHOOSE m \in S: \A n \in S: m >= n

GridPoints(xl, yl) == (0..(xl - 1)) \X (0..(yl - 1))

\* a variant that takes the rows one vertex too long
VertexIndexPadded(i, j, xl) == j * (xl + 1) + i

\* g[j * xl + i]
VertexIndex(i, j, xl) == j * xl + i

AddToVertices(vertices, xl, yl, delta) ==
    LET n == Len(vertices)
        \* the loop is at point (p \div yl, p % yl) in its step p
        missing == {p \in 0..(xl * yl - 1): VertexIndex(p \div yl, p % yl, xl) >= n}
        stop == IF missing = {} THEN xl * yl ELSE SetMin(missing)
    IN  [threw |-> IF missing = {} THEN "none" ELSE "TypeError",
         g |-> Strict([k1 \in 1..n |->
                 LET hits == {p \in GridPoints(xl, yl):
                                /\ VertexIndex(p[1], p[2], xl) = k1 - 1
                                /\ p[1] * yl + p[2] < stop}
                 IN  IF hits = {} THEN vertices[k1]
                     ELSE [vertices[k1] EXCEPT
                             !.z = AddElevation(@, delta[CHOOSE p \in hits: TRUE])]])]

(***************************************************************************)
(* The seeded noise primitives (./noise): perlin(x, y) and simplex(x, y)   *)
(* return a value in [-1, 1] that the seed and the coordinates determine.  *)
(* Here: a value in -NoiseScale..NoiseScale for the seed s and the point   *)
(* (xn / den, yn / den).                                                   *)
(***************************************************************************)
NoiseScale == 4

perlin(s, xn, yn, den) ==
    ((s * 5 + ((xn * 4) \div den) * 3 + ((yn * 4) \div den) * 7) % (2 * NoiseScale + 1))
        - NoiseScale

simplex(s, xn, yn, den) ==
    ((s * 3 + ((xn * 4) \div den) * 7 + ((yn * 4) \div den) * 5 + 1) % (2 * NoiseScale + 1))
        - NoiseScale

(***************************************************************************)
(* Heightmap generators, src/unnamed/part_002.  Each takes the vertex      *)
(* array and the options object it is handed, and r, the stream of its     *)
(* Math.random() values; each returns the array as it leaves it and what   *)
(* it threw.                                                               *)
(***************************************************************************)
\* The curves the callers of Curve pass: (x, y) = (xn / den, yn / den)
CurveValue(curve, xn, yn, den) ==
    CASE curve = "one" -> 1
      [] curve = "floorSum" -> (xn + yn) \div den
      [] OTHER -> 0

Curve(vertices, o, curve) ==
    LET range2 == o.maxHeight - o.minHeight
        \* scalar = frequency / (min(widthSegments, heightSegments) + 1)
        den == FreqDen * (Min2(o.widthSegments, o.heightSegments) + 1)
        xl == o.widthSegments + 1
        yl == o.heightSegments + 1
    IN  AddToVertices(vertices, xl, yl,
            [p \in GridPoints(xl, yl) |->
                (CurveValue(curve, p[1] * o.frequency, p[2] * o.frequency, den) * range2)
                    \div 2])

Cosine(vertices, o, r) ==
    LET range2 == o.maxHeight - o.minHeight
        \* i * frequencyScalar + phase = pi * (i * f * RandDen + 2 * Rand * fd) / (fd * RandDen)
        fd == FreqDen * (Min2(o.widthSegments, o.heightSegments) + 1)
        phase2 == 2 * Rand(r, 0) * fd
        xl == o.widthSegments + 1
        yl == o.heightSegments + 1
    IN  AddToVertices(vertices, xl, yl,
            [p \in GridPoints(xl, yl) |->
                (range2 * (CosPi(p[1] * o.frequency * RandDen + phase2, fd * RandDen)
                           + CosPi(p[2] * o.frequency * RandDen + phase2, fd * RandDen)))
                    \div (2 * TrigScale)])

Perlin(vertices, o, r) ==
    LET s == Rand(r, 0)
        range2 == o.maxHeight - o.minHeight
        \* divisor = (min(widthSegments, heightSegments) + 1) / frequency
        den == FreqDen * (Min2(o.widthSegments, o.heightSegments) + 1)
        xl == o.widthSegments + 1
        yl == o.heightSegments + 1
    IN  AddToVertices(vertices, xl, yl,
            [p \in GridPoints(xl, yl) |->
                (perlin(s, p[1] * o.frequency, p[2] * o.frequency, den) * range2)
                    \div (2 * NoiseScale)])

Simplex(vertices, o, r) ==
    LET s == Rand(r, 0)
        range2 == o.maxHeight - o.minHeight
        \* divisor = (min(widthSegments, heightSegments) + 1) * 2 / frequency
        den == FreqDen * (Min2(o.widthSegments, o.heightSegments) + 1) * 2
        xl == o.widthSegments + 1
        yl == o.heightSegments + 1
    IN  AddToVertices(vertices, xl, yl,
            [p \in GridPoints(xl, yl) |->
                (simplex(s, p[1] * o.frequency, p[2] * o.frequency, den) * range2)
                    \div (2 * NoiseScale)])

(***************************************************************************)
(* The calls Perlin and Simplex make to ./noise, in order: seed with the   *)
(* first Math.random() value of the run, then one sample per point of the  *)
(* plane, i outermost, up to the first point with no vertex (the vertex is *)
(* looked up before the sample is taken).                                  *)
(***************************************************************************)
SeedCall(v) == [call |-> "seed", arg |-> <<v>>]
SampleCall(kind, i, j) == [call |-> kind, arg |-> <<i, j>>]

\* the number of loop steps that reach their sample
SampledSteps(vertices, xl, yl) ==
    LET missing == {p \in 0..(xl * yl - 1):
                      VertexIndex(p \div yl, p % yl, xl) >= Len(vertices)}
    IN  IF missing = {} THEN xl * yl ELSE SetMin(missing)

\* a variant that seeds again before every sample
NoiseCallsReseeding(kind, vertices, o, r) ==
    LET yl == o.heightSegments + 1
        steps == SampledSteps(vertices, o.widthSegments + 1, yl)
    IN  [e \in 1..(2 * steps) |->
            IF e % 2 = 1 THEN SeedCall(Rand(r, 0))
            ELSE SampleCall(kind, ((e - 2) \div 2) \div yl, ((e - 2) \div 2) % yl)]

NoiseCalls(kind, vertices, o, r) ==
    LET yl == o.heightSegments + 1
        steps == SampledSteps(vertices, o.widthSegments + 1, yl)
    IN  <<SeedCall(Rand(r, 0))>>
            \o [e \in 1..steps |-> SampleCall(kind, (e - 1) \div yl, (e - 1) % yl)]

\* the calls to ./noise of one run of a method
MethodCalls(method, vertices, o, r) ==
    CASE method = "Perlin" -> NoiseCalls("perlin", vertices, o, r)
      [] method = "Simplex" -> NoiseCalls("simplex", vertices, o, r)
      [] OTHER -> <<>>

(***************************************************************************)
(* DiamondSquare.  The buffer heightmap[x][y] is a function on             *)
(* (0..segments) \X (0..segments); a run carries the buffer, the number n  *)
(* of Math.random() values drawn so far, the set of cells assigned, the    *)
(* set of index pairs it read or wrote the buffer at, and for every cell   *)
(* of the diamond step the wrapped column and row it read.                 *)
(* (n is never negative: the tests n < 0 in the loops only make the state  *)
(* of the previous iteration a value before the next one starts.)          *)
(***************************************************************************)
RECURSIVE PowerOfTwoFrom(_, _)
PowerOfTwoFrom(value, p) == IF p >= value THEN p ELSE PowerOfTwoFrom(value, 2 * p)

\* Math.pow(2, Math.ceil(Math.log(value) / Math.LN2)); the quotient of the two
\* logarithms is the exact one for every value below 2^29
ceilPowerOfTwo(value) == PowerOfTwoFrom(value, 1)

\* a variant sized for the number of segments, not of vertices
DSSegmentsOfSegments(o) == ceilPowerOfTwo(Max2(o.widthSegments, o.heightSegments))

DSSegments(o) == ceilPowerOfTwo(Max2(o.widthSegments, o.heightSegments) + 1)

\* d = Math.random() * smoothing * 2 - smoothing
DSDisplacement(r, n, smoothing) == (Rand(r, n) * smoothing * 2) \div RandDen - smoothing

\* the (x, y) the square loops visit, in order
DSSquarePoints(segments, whole) ==
    LET cnt == segments \div whole
    IN  [idx \in 1..(cnt * cnt) |->
            <<((idx - 1) \div cnt) * whole, ((idx - 1) % cnt) * whole>>]

\* the (x, y) the diamond loops visit, in order
DSDiamondPoints(segments, l, half) ==
    LET cy == segments \div l
    IN  [idx \in 1..((segments \div half) * cy) |->
            LET x == ((idx - 1) \div cy) * half
            IN  <<x, ((x + half) % l) + ((idx - 1) % cy) * l>>]

DSSquareCell(st, pt, segments, whole, half, smoothing, r) ==
    LET x == pt[1]
        y == pt[2]
        d == DSDisplacement(r, st.n, smoothing)
        avg == (st.hm[<<x, y>>] + st.hm[<<x + whole, y>>]
                + st.hm[<<x, y + whole>>] + st.hm[<<x + whole, y + whole>>]) \div 4
    IN  [hm |-> [st.hm EXCEPT ![<<x + half, y + half>>] = avg + d],
         n |-> st.n + 1,
         written |-> st.written \cup {<<x + half, y + half>>},
         touched |-> st.touched \cup {<<x, y>>, <<x + whole, y>>, <<x, y + whole>>,
                                      <<x + whole, y + whole>>, <<x + half, y + half>>},
         wraps |-> st.wraps]

\* the column the diamond step reads for "middle left", the row for "middle bottom"
DSWrapBack(x, half, size) == (x - half + size) % size
\* the column it reads for "middle right", the row for "middle top"
DSWrapForward(x, half, size) == (x + half) % size

\* a variant without the copies to the top and right edges
DSDiamondCellNoEdgeCopy(st, pt, segments, half, smoothing, r) ==
    LET x == pt[1]
        y == pt[2]
        size == segments + 1
        d == DSDisplacement(r, st.n, smoothing)
        left == <<DSWrapBack(x, half, size), y>>
        right == <<DSWrapForward(x, half, size), y>>
        top == <<x, DSWrapForward(y, half, size)>>
        bottom == <<x, DSWrapBack(y, half, size)>>
        avg == (st.hm[left] + st.hm[right] + st.hm[top] + st.hm[bottom]) \div 4 + d
        hm1 == [st.hm EXCEPT ![<<x, y>>] = avg]
        hm3 == hm1
        edges == {}
    IN  [hm |-> hm3,
         n |-> st.n + 1,
         written |-> st.written \cup {<<x, y>>} \cup edges,
         touched |-> st.touched \cup {left, right, top, bottom, <<x, y>>} \cup edges,
         wraps |-> st.wraps \cup
                     {[x |-> x, y |-> y, half |-> half,
                       left |-> left[1], leftWritten |-> left \in st.written,
                       bottom |-> bottom[2], bottomWritten |-> bottom \in st.written]}]

DSDiamondCell(st, pt, segments, half, smoothing, r) ==
    LET x == pt[1]
        y == pt[2]
        size == segments + 1
        d == DSDisplacement(r, st.n, smoothing)
        left == <<DSWrapBack(x, half, size), y>>
        right == <<DSWrapForward(x, half, size), y>>
        top == <<x, DSWrapForward(y, half, size)>>
        bottom == <<x, DSWrapBack(y, half, size)>>
        avg == (st.hm[left] + st.hm[right] + st.hm[top] + st.hm[bottom]) \div 4 + d
        hm1 == [st.hm EXCEPT ![<<x, y>>] = avg]
        hm2 == IF x = 0 THEN [hm1 EXCEPT ![<<segments, y>>] = avg] ELSE hm1
        hm3 == IF y = 0 THEN [hm2 EXCEPT ![<<x, segments>>] = avg] ELSE hm2
        edges == (IF x = 0 THEN {<<segments, y>>} ELSE {})
                    \cup (IF y = 0 THEN {<<x, segments>>} ELSE {})
    IN  [hm |-> hm3,
         n |-> st.n + 1,
         written |-> st.written \cup {<<x, y>>} \cup edges,
         touched |-> st.touched \cup {left, right, top, bottom, <<x, y>>} \cup edges,
         wraps |-> st.wraps \cup
                     {[x |-> x, y |-> y, half |-> half,
                       left |-> left[1], leftWritten |-> left \in st.written,
                       bottom |-> bottom[2], bottomWritten |-> bottom \in st.written]}]

\* the square step after the first m of its points
RECURSIVE DSSquareStep(_, _, _, _, _, _, _, _)
DSSquareStep(st, pts, m, segments, whole, half, smoothing, r) ==
    IF m = 0 THEN st
    ELSE LET prev == DSSquareStep(st, pts, m - 1, segments, whole, half, smoothing, r)
         IN  IF prev.n < 0 THEN prev
             ELSE DSSquareCell(prev, pts[m], segments, whole, half, smoothing, r)

\* the diamond step after the first m of its points
RECURSIVE DSDiamondStep(_, _, _, _, _, _, _)
DSDiamondStep(st, pts, m, segments, half, smoothing, r) ==
    IF m = 0 THEN st
    ELSE LET prev == DSDiamondStep(st, pts, m - 1, segments, half, smoothing, r)
         IN  IF prev.n < 0 THEN prev
             ELSE DSDiamondCell(prev, pts[m], segments, half, smoothing, r)

\* for (l = segments; l >= 2; l /= 2): smoothing /= 2, the square step, the diamond step
RECURSIVE DSGenerate(_, _, _, _, _)
DSGenerate(st, segments, l, smoothing, r) ==
    IF l < 2 THEN st
    ELSE LET half == l \div 2
             sm == smoothing \div 2
             sqp == DSSquarePoints(segments, l)
             dip == DSDiamondPoints(segments, l, half)
             sq == DSSquareStep(st, sqp, Len(sqp), segments, l, half, sm, r)
             di == DSDiamondStep(sq, dip, Len(dip), segments, half, sm, r)
         IN  IF sq.n < 0 \/ di.n < 0 THEN di ELSE DSGenerate(di, segments, half, sm, r)

\* the buffer when the generation loop ends
DSRun(o, r) ==
    LET segments == DSSegments(o)
    IN  DSGenerate([hm |-> [pt \in (0..segments) \X (0..segments) |-> 0],
                    n |-> 0, written |-> {}, touched |-> {}, wraps |-> {}],
                   segments, segments, o.maxHeight - o.minHeight, r)

DiamondSquare(vertices, o, r) ==
    LET run == DSRun(o, r)
        xl == o.widthSegments + 1
        yl == o.heightSegments + 1
    IN  AddToVertices(vertices, xl, yl, [p \in GridPoints(xl, yl) |-> run.hm[p]])

\* the buffer of a run when it ends, with the cells the last loops applied to
\* the grid (the vertex is looked up before the cell is read)
DSBuffer(vertices, o, r) ==
    LET run == DSRun(o, r)
        xl == o.widthSegments + 1
        yl == o.heightSegments + 1
        applied == {p \in GridPoints(xl, yl):
                      p[1] * yl + p[2] < SampledSteps(vertices, xl, yl)}
    IN  [segments |-> DSSegments(o),
         hm |-> run.hm,
         written |-> run.written,
         touched |-> run.touched \cup applied,
         wraps |-> run.wraps,
         applied |-> applied]


(***************************************************************************)
(* Fault.  Real quantities are kept as fractions:                          *)
(*   d             = FaultD / FixScale          (Math.sqrt, rounded down)  *)
(*   iterations    = FaultItNum / FaultItDen                               *)
(*   displacement  = FaultDispNum / FaultDispDen                           *)
(*   smoothDistance = FaultSmoothNum / FaultSmoothDen                      *)
(***************************************************************************)
FixScale == 16

ISqrt(v) == CHOOSE s \in 0..v: s * s <= v /\ (s + 1) * (s + 1) > v

FaultD(o) ==
    ISqrt((o.widthSegments * o.widthSegments + o.heightSegments * o.heightSegments)
            * FixScale * FixScale)

FaultItNum(o) == FaultD(o) * o.frequency
FaultItDen == FixScale * FreqDen

\* the number of times the body of for (k = 0; k < iterations; k++) runs
FaultLoops(o) ==
    (FaultItNum(o) + FaultItDen - 1) \div FaultItDen

\* displacement = range / iterations, range = (maxHeight - minHeight) * 0.5
FaultDispNum(o) == (o.maxHeight - o.minHeight) * FaultItDen
FaultDispDen(o) == 2 * FaultItNum(o)
FaultDisplacement(o) == FaultDispNum(o) \div FaultDispDen(o)

\* smoothDistance = Math.min(width / widthSegments, height / heightSegments) * frequency
FaultSmoothNum(o) ==
    IF o.width * o.heightSegments <= o.height * o.widthSegments
    THEN o.width * o.frequency ELSE o.height * o.frequency
FaultSmoothDen(o) ==
    IF o.width * o.heightSegments <= o.height * o.widthSegments
    THEN o.widthSegments * FreqDen ELSE o.heightSegments * FreqDen

\* distance = a * i + b * j - c of iteration k at (i, j), times FaultDistDen
FaultDistDen == TrigScale * FixScale * 2 * RandDen
FaultDistNum(o, r, k, i, j) ==
    LET v == Rand(r, 2 * k)
        a == SinPi(2 * v, RandDen)
        b == CosPi(2 * v, RandDen)
        \* c = Math.random() * d - d * 0.5
        c2 == FaultD(o) * (2 * Rand(r, 2 * k + 1) - RandDen)
    IN  (a * i + b * j) * FixScale * 2 * RandDen - c2 * TrigScale

\* what iteration k adds to the vertex at (i, j)
FaultDelta(o, r, k, i, j) ==
    LET dist == FaultDistNum(o, r, k, i, j)
        sn == FaultSmoothNum(o)
        sd == FaultSmoothDen(o)
    IN  IF dist * sd > sn * FaultDistDen THEN FaultDisplacement(o)
        ELSE IF dist * sd < -(sn * FaultDistDen) THEN -FaultDisplacement(o)
        ELSE (CosPi(2 * dist * sd, FaultDistDen * sn) * FaultDispNum(o))
                \div (TrigScale * FaultDispDen(o))

RECURSIVE FaultIterate(_, _, _, _)
FaultIterate(vertices, o, r, k) ==
    IF k * FaultItDen >= FaultItNum(o) THEN [threw |-> "none", g |-> vertices]
    ELSE LET xl == o.widthSegments + 1
             yl == o.heightSegments + 1
             res == AddToVertices(vertices, xl, yl,
                        [p \in GridPoints(xl, yl) |-> FaultDelta(o, r, k, p[1], p[2])])
         IN  IF res.threw # "none" THEN res
             ELSE FaultIterate(res.g, o, r, k + 1)

Fault(vertices, o, r) == FaultIterate(vertices, o, r, 0)

(***************************************************************************)
(* Easing functions, src/src/util/core.ts, on a fraction x = n / d:        *)
(* EaseNum / EaseDen is the value.                                         *)
(***************************************************************************)
\* Math.pow(x, 1.55) in fixed point, for x = n / d in [0, 1]: x * x^(1/2) * x^(1/16)
\* with every root truncated to 1 / FixScale (the exponent 1.5625 stands for 1.55);
\* the value is in units of 1 / FixScale
PowWeak(n, d) ==
    LET x == (n * FixScale) \div d
        r2 == ISqrt(x * FixScale)
        r4 == ISqrt(r2 * FixScale)
        r8 == ISqrt(r4 * FixScale)
        r16 == ISqrt(r8 * FixScale)
    IN  (((x * r2) \div FixScale) * r16) \div FixScale

\* InEaseOut without its + 0.5
EaseNumUncentred(easing, n, d) ==
    CASE easing = "Linear" -> n
      [] easing = "EaseIn" -> n * n
      [] easing = "EaseOut" -> n * (2 * d - n)
      [] easing = "EaseInOut" -> n * n * (3 * d - 2 * n)
      [] easing = "InEaseOut" -> (2 * n - d) * (2 * n - d) * (2 * n - d)
      [] easing = "EaseInWeak" -> PowWeak(n, d)
      [] easing = "EaseInStrong" -> n * n * n * n * n * n * n
      [] OTHER -> n

EaseNum(easing, n, d) ==
    CASE easing = "Linear" -> n
      [] easing = "EaseIn" -> n * n
      [] easing = "EaseOut" -> n * (2 * d - n)
      [] easing = "EaseInOut" -> n * n * (3 * d - 2 * n)
      [] easing = "InEaseOut" -> (2 * n - d) * (2 * n - d) * (2 * n - d) + d * d * d
      [] easing = "EaseInWeak" -> PowWeak(n, d)
      [] easing = "EaseInStrong" -> n * n * n * n * n * n * n
      [] OTHER -> n

EaseDen(easing, d) ==
    CASE easing = "Linear" -> d
      [] easing = "EaseIn" -> d * d
      [] easing = "EaseOut" -> d * d
      [] easing = "EaseInOut" -> d * d * d
      [] easing = "InEaseOut" -> 2 * d * d * d
      [] easing = "EaseInWeak" -> FixScale
      [] easing = "EaseInStrong" -> d * d * d * d * d * d * d
      [] OTHER -> d

(***************************************************************************)
(* The filters (./filters), from their description:                        *)
(*   applyTerrainClamp squeezes the elevations of the grid it is given     *)
(*     into [minHeight, maxHeight]: with stretch every elevation is moved  *)
(*     to minHeight + easing(position in the grid's own range) * range,    *)
(*     without it only the elevations outside the window are moved, to     *)
(*     the bound they passed;                                              *)
(*   applyTerrainStep buckets the elevations into `steps` levels;          *)
(*   applyTerrainSmooth and SmoothMedian replace each elevation of the     *)
(*     plane by a value taken from it and its neighbours in the row;       *)
(*   applyTurbulenceTurbulence perturbs each elevation of the plane.       *)
(***************************************************************************)
GridLow(vertices) == SetMin({vertices[k1].z : k1 \in 1..Len(vertices)})
GridHigh(vertices) == SetMax({vertices[k1].z : k1 \in 1..Len(vertices)})

applyTerrainClamp(vertices, o) ==
    IF Len(vertices) = 0 THEN vertices
    ELSE LET lo == GridLow(vertices)
             hi == GridHigh(vertices)
             range == o.maxHeight - o.minHeight
         IN  [k1 \in 1..Len(vertices) |->
                LET z == vertices[k1].z
                IN  [vertices[k1] EXCEPT !.z =
                        IF o.stretch
                        THEN IF hi = lo THEN o.minHeight
                             ELSE o.minHeight
                                  + (EaseNum(o.easing, z - lo, hi - lo) * range)
                                        \div EaseDen(o.easing, hi - lo)
                        ELSE Max2(o.minHeight, Min2(o.maxHeight, z))]]

applyTerrainStep(vertices, steps) ==
    IF Len(vertices) = 0 THEN vertices
    ELSE LET lo == GridLow(vertices)
             hi == GridHigh(vertices)
             bucket == Max2(1, (hi - lo + steps) \div steps)
         IN  [k1 \in 1..Len(vertices) |->
                [vertices[k1] EXCEPT !.z = lo + ((@ - lo) \div bucket) * bucket]]

PlaneNeighbours(vertices, o, k1) ==
    LET xl == o.widthSegments + 1
        left == IF (k1 - 1) % xl = 0 THEN k1 ELSE k1 - 1
        right == IF (k1 - 1) % xl = xl - 1 \/ k1 + 1 > Len(vertices) THEN k1 ELSE k1 + 1
    IN  <<vertices[left].z, vertices[k1].z, vertices[right].z>>

InPlane(o, k1) == k1 <= (o.widthSegments + 1) * (o.heightSegments + 1)

applyTerrainSmooth(vertices, o) ==
    [k1 \in 1..Len(vertices) |->
        IF ~InPlane(o, k1) THEN vertices[k1]
        ELSE LET nb == PlaneNeighbours(vertices, o, k1)
             IN  [vertices[k1] EXCEPT !.z = (nb[1] + 2 * nb[2] + nb[3]) \div 4]]

SmoothMedian(vertices, o) ==
    [k1 \in 1..Len(vertices) |->
        IF ~InPlane(o, k1) THEN vertices[k1]
        ELSE LET nb == PlaneNeighbours(vertices, o, k1)
             IN  [vertices[k1] EXCEPT !.z =
                    nb[1] + nb[2] + nb[3]
                        - SetMin({nb[1], nb[2], nb[3]}) - SetMax({nb[1], nb[2], nb[3]})]]

applyTurbulenceTurbulence(vertices, o) ==
    [k1 \in 1..Len(vertices) |->
        IF ~InPlane(o, k1) THEN vertices[k1]
        ELSE [vertices[k1] EXCEPT !.z =
                @ + (simplex(0, (k1 - 1) % (o.widthSegments + 1),
                             (k1 - 1) \div (o.widthSegments + 1), 1)
                        * (o.maxHeight - o.minHeight)) \div (8 * NoiseScale)]]

(***************************************************************************)
(* WhiteNoise and generateFromValueNoise.  data is the Float64Array of     *)
(* (segments + 1) * (segments + 1) numbers, data[idx] of the code being    *)
(* element idx + 1 of the sequence; a read outside it gives undefined,     *)
(* which `|| t` replaces by t, as it replaces 0.  A run also carries, for  *)
(* every sample point with a neighbour off the sample grid (i - inc < 0 or *)
(* j - inc < 0) that reaches the interpolation, the values it took for t,  *)
(* l, b and c and which of them the cells it interpolated depend on.       *)
(***************************************************************************)
\* data[idx] || t
WNRead(data, size, idx, t) ==
    IF idx < 0 \/ idx >= size THEN t
    ELSE IF data[idx + 1] = 0 THEN t ELSE data[idx + 1]

\* the sample point (i, j): data[k] = Math.random() * range, then the
\* interpolation of the cells between the last sample point and this one
WNSample(st, i, j, inc, xl, size, range, r) ==
    LET k == j * xl + i
        t == (Rand(r, st.n) * range) \div RandDen
        data1 == [st.data EXCEPT ![k + 1] = t]
    IN  IF st.lastX < 0 /\ st.lastY < 0
        THEN [st EXCEPT !.data = data1, !.n = @ + 1]
        ELSE LET l == WNRead(data1, size, j * xl + (i - inc), t)
                 b == WNRead(data1, size, (j - inc) * xl + i, t)
                 c == WNRead(data1, size, (j - inc) * xl + (i - inc), t)
                 box == {p \in (st.lastX..(i - 1)) \X (st.lastY..(j - 1)) :
                            /\ ~(p[1] = st.lastX /\ p[2] = st.lastY)
                            /\ p[2] * xl + p[1] >= 0}
                 value(p) ==
                    LET px == p[1] - st.lastX
                        py == p[2] - st.lastY
                    IN  (py * (px * t + (inc - px) * l)
                         + (inc - py) * (px * b + (inc - px) * c)) \div (inc * inc)
             IN  [data |-> Strict([z1 \in 1..size |->
                             IF \E p \in box : p[2] * xl + p[1] = z1 - 1
                             THEN value(CHOOSE p \in box : p[2] * xl + p[1] = z1 - 1)
                             ELSE data1[z1]]),
                  n |-> st.n + 1,
                  lastX |-> st.lastX,
                  lastY |-> j,
                  reads |-> IF i - inc >= 0 /\ j - inc >= 0 THEN st.reads
                            ELSE st.reads \cup
                                   {[inc |-> inc, i |-> i, j |-> j,
                                     t |-> t, l |-> l, b |-> b, c |-> c,
                                     usedL |-> \E p \in box: p[2] > st.lastY,
                                     usedB |-> \E p \in box: p[1] > st.lastX,
                                     usedC |-> box # {}]}]

\* for (j = 0; j <= yl; j += inc): column i after its first m sample points
RECURSIVE WNColumn(_, _, _, _, _, _, _, _)
WNColumn(st, i, m, inc, xl, size, range, r) ==
    IF m = 0 THEN st
    ELSE LET prev == WNColumn(st, i, m - 1, inc, xl, size, range, r)
         IN  IF prev.n < 0 THEN prev
             ELSE WNSample(prev, i, (m - 1) * inc, inc, xl, size, range, r)

\* for (i = 0; i <= xl; i += inc): the walk after its first m columns; a
\* column ends on lastX = i, lastY = -inc
RECURSIVE WNWalk(_, _, _, _, _, _, _)
WNWalk(st, m, inc, xl, size, range, r) ==
    IF m = 0 THEN st
    ELSE LET prev == WNWalk(st, m - 1, inc, xl, size, range, r)
             col == WNColumn(prev, (m - 1) * inc, xl \div inc + 1,
                             inc, xl, size, range, r)
         IN  IF prev.n < 0 THEN prev
             ELSE [data |-> col.data, n |-> col.n,
                   lastX |-> (m - 1) * inc, lastY |-> -inc, reads |-> col.reads]

\* st: the vertex array, the data array, the count of random values drawn
WhiteNoise(st, o, scale, segments, range, r) ==
    IF scale > segments \/ st.threw # "none" THEN st
    ELSE LET inc == segments \div scale
             size == (segments + 1) * (segments + 1)
             walked == WNWalk([data |-> st.data, n |-> st.n,
                               lastX |-> -inc, lastY |-> -inc, reads |-> st.reads],
                              segments \div inc + 1, inc, segments, size, range, r)
             xl == o.widthSegments + 1
             yl == o.heightSegments + 1
             res == AddToVertices(st.g, xl, yl,
                        [p \in GridPoints(xl, yl) |-> walked.data[p[2] * segments + p[1] + 1]])
         IN  [g |-> res.g, threw |-> res.threw, data |-> walked.data, n |-> walked.n,
              reads |-> walked.reads]

\* Math.floor(Math.pow(Math.max(widthSegments, heightSegments) + 1, 2))
VNSegments(o) ==
    (Max2(o.widthSegments, o.heightSegments) + 1)
        * (Max2(o.widthSegments, o.heightSegments) + 1)

\* range * Math.pow(2, 2.4 - i * 1.2), the power in thousandths
VNRange(range, i) ==
    (range * (CASE i = 2 -> 1000 [] i = 3 -> 435 [] i = 4 -> 189
                [] i = 5 -> 82 [] OTHER -> 36)) \div 1000

RECURSIVE VNLayers(_, _, _, _, _)
VNLayers(st, o, i, segments, r) ==
    IF i >= 7 THEN st
    ELSE VNLayers(WhiteNoise(st, o, 2 ^ i, segments,
                             VNRange(o.maxHeight - o.minHeight, i), r),
                  o, i + 1, segments, r)

\* generateFromValueNoise up to its closing clamp: the five WhiteNoise layers
VNRun(vertices, o, r) ==
    LET segments == VNSegments(o)
    IN  VNLayers([g |-> vertices, threw |-> "none",
                  data |-> [z1 \in 1..((segments + 1) * (segments + 1)) |-> 0],
                  n |-> 0, reads |-> {}],
                 o, 2, segments, r)

ValueNoiseLayers(vertices, o, r) ==
    LET st == VNRun(vertices, o, r)
    IN  [threw |-> st.threw, g |-> st.g]

\* the working segment length of a run and the neighbours its layers read
VNBuffer(vertices, o, r) ==
    [segments |-> VNSegments(o), reads |-> VNRun(vertices, o, r).reads]

\* what one run of a method leaves of its working buffer, <<>> for a method
\* without
MethodBuffer(method, vertices, o, r) ==
    CASE method = "DiamondSquare" -> DSBuffer(vertices, o, r)
      [] method = "generateFromValueNoise" -> VNBuffer(vertices, o, r)
      [] OTHER -> <<>>

\* the options literal of the closing clamp
ValueNoiseClampOptions(o) ==
    [maxHeight |-> o.maxHeight, minHeight |-> o.minHeight,
     stretch |-> TRUE, easing |-> "Linear"]

generateFromValueNoise(vertices, o, r) ==
    LET st == ValueNoiseLayers(vertices, o, r)
    IN  IF st.threw # "none" THEN st
        ELSE [threw |-> "none",
              g |-> Strict(applyTerrainClamp(st.g, ValueNoiseClampOptions(o)))]

(***************************************************************************)
(* Weierstrass.  The 20 terms -exp(dir1 * x * x + dir2 * y * y) are kept   *)
(* in fixed point: exp to first order, the decay (1 + r)^-k as 1 / (k + 1),*)
(* the sines as SinPi.                                                     *)
(***************************************************************************)
WeierstrassTerms == 20

WeierstrassTerm(i, j, k, r) ==
    LET dir1 == IF 2 * Rand(r, 0) < RandDen THEN 1 ELSE -1
        dir2 == IF 2 * Rand(r, 1) < RandDen THEN 1 ELSE -1
        x == SinPi((k + 1) * (4 * i + j * Rand(r, 5)) * (1 + Rand(r, 4)), 8 * RandDen)
                \div (k + 1)
        y == SinPi((k + 1) * (4 * j + i * Rand(r, 9)) * (1 + Rand(r, 8)), 8 * RandDen)
                \div (k + 1)
    IN  -(TrigScale + (dir1 * x * x + dir2 * y * y) \div TrigScale)

RECURSIVE WeierstrassSum(_, _, _, _)
WeierstrassSum(i, j, k, r) ==
    IF k >= WeierstrassTerms THEN 0
    ELSE WeierstrassTerm(i, j, k, r) + WeierstrassSum(i, j, k + 1, r)

\* Weierstrass up to its closing clamp: the loop over the vertices
WeierstrassLoop(vertices, o, r) ==
    LET range2 == o.maxHeight - o.minHeight
        xl == o.widthSegments + 1
        yl == o.heightSegments + 1
    IN  AddToVertices(vertices, xl, yl,
            [p \in GridPoints(xl, yl) |->
                (WeierstrassSum(p[1], p[2], 0, r) * range2) \div (2 * TrigScale)])

Weierstrass(vertices, o, r) ==
    LET res == WeierstrassLoop(vertices, o, r)
    IN  IF res.threw # "none" THEN res
        ELSE [threw |-> "none", g |-> Strict(applyTerrainClamp(res.g, o))]

(***************************************************************************)
(* MultiPass.  A Pass is [method, amplitude, frequency]; an optional       *)
(* field is <<>> (undefined) or <<v>>.  The methods a pass may name:       *)
(*   the generators above; "CurveOne" and "CurveFloorSum", which call      *)
(*   Curve with a fixed curve; "SmoothMedian", the third pass of           *)
(*   PerlinDiamond; and "OptionsWriter", a caller's method that assigns    *)
(*   fields of the options object it is handed.                            *)
(* Options objects live in a two-cell heap [base, cloned]: base is the     *)
(* caller's object, cloned the one line 42 creates.                        *)
(***************************************************************************)
\* the fields OptionsWriter assigns
OptionsWriter(o) ==
    [o EXCEPT !.steps = <<5>>, !.easing = "EaseIn", !.stretch = ~o.stretch]

\* pass.method(g, clonedOptions): what the call does to the grid
InvokeMethod(method, vertices, o, r) ==
    CASE method = "Cosine" -> Cosine(vertices, o, r)
      [] method = "Perlin" -> Perlin(vertices, o, r)
      [] method = "Simplex" -> Simplex(vertices, o, r)
      [] method = "DiamondSquare" -> DiamondSquare(vertices, o, r)
      [] method = "Fault" -> Fault(vertices, o, r)
      [] method = "Weierstrass" -> Weierstrass(vertices, o, r)
      [] method = "generateFromValueNoise" -> generateFromValueNoise(vertices, o, r)
      [] method = "CurveOne" -> Curve(vertices, o, "one")
      [] method = "CurveFloorSum" -> Curve(vertices, o, "floorSum")
      [] method = "SmoothMedian" -> [threw |-> "none", g |-> SmoothMedian(vertices, o)]
      [] method = "OptionsWriter" -> [threw |-> "none", g |-> vertices]

\* pass.method(g, clonedOptions): what the call does to the options object
MethodOptions(method, o) ==
    IF method = "OptionsWriter" THEN OptionsWriter(o) ELSE o

\* a variant without the copy: the passes are handed the caller's own object
SharedOptionsRef == "base"

\* const clonedOptions = { ...options }: the object the passes are handed
ClonedOptionsRef == "cloned"

\* l = passes.length
PassCount(ps) == Len(ps)

\* a variant that takes the passes from the end of the list
PassAtReversed(ps, i) == ps[Len(ps) - i]

\* const pass = passes[i]
PassAt(ps, i) == ps[i + 1]

\* amp = typeof pass.amplitude === "undefined" ? 1 : pass.amplitude
PassAmplitude(pass) == IF IsUndefined(pass.amplitude) THEN AmpDen ELSE pass.amplitude[1]

\* move = 0.5 * (range - range * amp)
PassMove(range, amp) == (range * AmpDen - range * amp) \div (2 * AmpDen)

\* a variant that keeps the frequency of the pass before when the pass gives
\* none
PassFrequencySticky(pass, base, current) ==
    IF IsUndefined(pass.frequency) THEN current.frequency ELSE pass.frequency[1]

\* typeof freq === "undefined" ? options.frequency : freq
PassFrequency(pass, base, current) ==
    IF IsUndefined(pass.frequency) THEN base.frequency ELSE pass.frequency[1]

\* the options object of the pass, as the loop body leaves it for the method
PassOptions(heap, pass, range) ==
    LET ref == ClonedOptionsRef
        move == PassMove(range, PassAmplitude(pass))
        h1 == [heap EXCEPT ![ref].maxHeight = heap.base.maxHeight - move]
        h2 == [h1 EXCEPT ![ref].minHeight = h1.base.minHeight + move]
    IN  [h2 EXCEPT ![ref].frequency = PassFrequency(pass, h2.base, h2[ref])]

\* a variant of the loop body that runs the method on a copy of the grid and
\* drops what it wrote
MultiPassBodyOnCopy(st, pass, range, r) ==
    CHOOSE next \in
        {[g |-> st.g,
          threw |-> res.threw,
          heap |-> [h \in DOMAIN hp |->
                      IF h = ClonedOptionsRef
                      THEN MethodOptions(pass.method, hp[h]) ELSE hp[h]],
          calls |-> Append(st.calls,
                      [method |-> pass.method, o |-> hp[ClonedOptionsRef],
                       gIn |-> Elevations(st.g), gOut |-> Elevations(st.g)]),
          events |-> st.events
                        \o MethodCalls(pass.method, st.g, hp[ClonedOptionsRef], r)] :
            hp \in {PassOptions(st.heap, pass, range)},
            res \in {InvokeMethod(pass.method, st.g,
                                  PassOptions(st.heap, pass, range)[ClonedOptionsRef], r)}} :
        TRUE

\* the body of the loop for one pass; r is the stream of Math.random() values
\* of the pass's method
MultiPassBody(st, pass, range, r) ==
    CHOOSE next \in
        {[g |-> res.g,
          threw |-> res.threw,
          heap |-> [h \in DOMAIN hp |->
                      IF h = ClonedOptionsRef
                      THEN MethodOptions(pass.method, hp[h]) ELSE hp[h]],
          calls |-> Append(st.calls,
                      [method |-> pass.method, o |-> hp[ClonedOptionsRef],
                       gIn |-> Elevations(st.g), gOut |-> Elevations(res.g)]),
          events |-> st.events
                        \o MethodCalls(pass.method, st.g, hp[ClonedOptionsRef], r)] :
            hp \in {PassOptions(st.heap, pass, range)},
            res \in {InvokeMethod(pass.method, st.g,
                                  PassOptions(st.heap, pass, range)[ClonedOptionsRef], r)}} :
        TRUE

\* the loop after its first m passes; a method that throws ends it
RECURSIVE MultiPassLoop(_, _, _, _, _)
MultiPassLoop(st, ps, m, range, r) ==
    IF m = 0 THEN st
    ELSE CHOOSE next \in
            {IF prev.threw # "none" THEN prev
             ELSE MultiPassBody(prev, PassAt(ps, m - 1), range, r + m - 1) :
                prev \in {MultiPassLoop(st, ps, m - 1, range, r)}} : TRUE

MultiPass(vertices, o, ps, r) ==
    MultiPassLoop([g |-> vertices, threw |-> "none",
                   heap |-> [base |-> o, cloned |-> o], calls |-> <<>>,
                   events |-> <<>>],
                  ps, PassCount(ps), o.maxHeight - o.minHeight, r)

Pass(method, amplitude, frequency) ==
    [method |-> method, amplitude |-> amplitude, frequency |-> frequency]

\* the pass lists of CosineLayers, PerlinDiamond, PerlinLayers, SimplexLayers
CosineLayersPasses ==
    <<Pass("Cosine", <<AmpDen>>, <<(5 * FreqDen) \div 2>>),
      Pass("Cosine", <<AmpDen \div 10>>, <<12 * FreqDen>>),
      Pass("Cosine", <<AmpDen \div 20>>, <<15 * FreqDen>>),
      Pass("Cosine", <<AmpDen \div 40>>, <<20 * FreqDen>>)>>

PerlinDiamondPasses ==
    <<Pass("Perlin", Undefined, Undefined),
      Pass("DiamondSquare", <<(3 * AmpDen) \div 4>>, Undefined),
      Pass("SmoothMedian", Undefined, Undefined)>>

PerlinLayersPasses ==
    <<Pass("Perlin", Undefined, <<(5 * FreqDen) \div 4>>),
      Pass("Perlin", <<AmpDen \div 20>>, <<(5 * FreqDen) \div 2>>),
      Pass("Perlin", <<(7 * AmpDen) \div 20>>, <<5 * FreqDen>>),
      Pass("Perlin", <<(3 * AmpDen) \div 20>>, <<10 * FreqDen>>)>>

SimplexLayersPasses ==
    <<Pass("Simplex", Undefined, <<(5 * FreqDen) \div 4>>),
      Pass("Simplex", <<AmpDen \div 2>>, <<(5 * FreqDen) \div 2>>),
      Pass("Simplex", <<AmpDen \div 4>>, <<5 * FreqDen>>),
      Pass("Simplex", <<AmpDen \div 8>>, <<10 * FreqDen>>),
      Pass("Simplex", <<AmpDen \div 16>>, <<20 * FreqDen>>)>>

CosineLayers(vertices, o, r) == MultiPass(vertices, o, CosineLayersPasses, r)
PerlinDiamond(vertices, o, r) == MultiPass(vertices, o, PerlinDiamondPasses, r)
PerlinLayers(vertices, o, r) == MultiPass(vertices, o, PerlinLayersPasses, r)
SimplexLayers(vertices, o, r) == MultiPass(vertices, o, SimplexLayersPasses, r)

(***************************************************************************)
(* normalizeTerrain.  options.after is "undefined", a value that is not a  *)
(* function ("notAFunction"), or one of two caller's functions: "hook"     *)
(* raises every elevation by one; "throwingHook" raises the first          *)
(* elevation by one and then throws.  Each stage that runs is logged with  *)
(* the elevations it was handed and the ones it left.                      *)
(***************************************************************************)
AfterHook(vertices, o) ==
    IF o.after = "hook"
    THEN [threw |-> "none",
          g |-> [k1 \in 1..Len(vertices) |-> [vertices[k1] EXCEPT !.z = @ + 1]]]
    ELSE [threw |-> "HookError",
          g |-> [k1 \in 1..Len(vertices) |->
                    IF k1 = 1 THEN [vertices[k1] EXCEPT !.z = @ + 1] ELSE vertices[k1]]]

\* typeof options.after === "function"
AfterIsFunction(o) == o.after \in {"hook", "throwingHook"}

\* a variant that quantises for steps = 1 too
StepsAtLeastOne(o) == ~IsUndefined(o.steps) /\ o.steps[1] >= 1

\* options.steps && options.steps > 1
StepsEnabled(o) == ~IsUndefined(o.steps) /\ o.steps[1] # 0 /\ o.steps[1] > 1

Stage(st, fn, o, res) ==
    [g |-> Strict(res.g), threw |-> res.threw,
     calls |-> Append(st.calls,
                 [fn |-> fn, o |-> o, gIn |-> Elevations(st.g),
                  gOut |-> Elevations(res.g)])]

Filtered(vertices) == [threw |-> "none", g |-> vertices]

\* the filters of normalizeTerrain, up to the clamp
NormalizeFilters(vertices, o) ==
    LET s0 == [g |-> vertices, threw |-> "none", calls |-> <<>>]
        s1 == IF o.turbulent
              THEN Stage(s0, "applyTurbulenceTurbulence", o,
                         Filtered(applyTurbulenceTurbulence(s0.g, o)))
              ELSE s0
        s2 == IF StepsEnabled(o)
              THEN LET q == Stage(s1, "applyTerrainStep", o,
                                  Filtered(applyTerrainStep(s1.g, o.steps[1])))
                   IN  Stage(q, "applyTerrainSmooth", o,
                             Filtered(applyTerrainSmooth(q.g, o)))
              ELSE s1
    IN  Stage(s2, "applyTerrainClamp", o, Filtered(applyTerrainClamp(s2.g, o)))

\* a variant that catches the hook's failure and puts the grid back as the
\* filters left it
normalizeTerrainGuarded(vertices, o) ==
    LET s3 == NormalizeFilters(vertices, o)
        s4 == IF AfterIsFunction(o) THEN Stage(s3, "after", o, AfterHook(s3.g, o)) ELSE s3
    IN  IF s4.threw # "none" THEN [s4 EXCEPT !.g = s3.g, !.threw = "none"] ELSE s4

normalizeTerrain(vertices, o) ==
    LET s3 == NormalizeFilters(vertices, o)
    IN  IF AfterIsFunction(o) THEN Stage(s3, "after", o, AfterHook(s3.g, o)) ELSE s3

(***************************************************************************)
(* The caller of the adapters: converts the grid, may edit the buffer,     *)
(* writes it back.                                                         *)
(***************************************************************************)
InitAdapters ==
    /\ comp = "adapters"
    /\ pc = "ready"
    /\ threw = "none"
    /\ \E ws \in SegRange, hs \in SegRange, extra \in 0..MaxExtra, pat \in 0..MaxPattern:
          /\ options = MakeOptions(ws, hs, -8, 8, 4)
          /\ g = MakeGrid(ws, hs, extra, pat)
    /\ g0 = g
    /\ arr = <<>>
    /\ arrEdited = FALSE
    /\ options0 = options
    /\ passes = <<>>
    /\ seed = 0
    /\ calls = <<>>
    /\ cloned = options
    /\ op = "none"
    /\ ret = <<>>
    /\ events = <<>>
    /\ buf = <<>>

CallToArray2D ==
    /\ comp = "adapters" /\ pc = "ready"
    /\ LET r == toArray2D(g, options)
       IN  /\ threw' = r.threw
           /\ arr' = r.tgt
           /\ pc' = IF r.threw = "none" THEN "have2D" ELSE "threw"
    /\ g0' = g
    /\ UNCHANGED <<comp, options, g, arrEdited, options0, passes, seed, calls, cloned, op, ret, events, buf>>

\* The caller changes one cell of the buffer before writing it back.
EditBuffer ==
    /\ comp = "adapters" /\ pc = "have2D" /\ ~arrEdited
    /\ \E i1 \in 1..Len(arr): \E j1 \in 1..Len(arr[i1]):
          arr' = [arr EXCEPT ![i1][j1] = arr[i1][j1] + 1]
    /\ arrEdited' = TRUE
    /\ UNCHANGED <<comp, pc, threw, options, g, g0, options0, passes, seed, calls, cloned, op, ret, events, buf>>

CallFromArray2D ==
    /\ comp = "adapters" /\ pc = "have2D"
    /\ LET r == fromArray2D(g, arr)
       IN  /\ g' = r.g
           /\ threw' = r.threw
           /\ pc' = IF r.threw = "none" THEN "wrote2D" ELSE "threw"
    /\ UNCHANGED <<comp, options, g0, arr, arrEdited, options0, passes, seed, calls, cloned, op, ret, events, buf>>

CallToArray1D ==
    /\ comp = "adapters" /\ pc = "ready"
    /\ arr' = Strict(toArray1D(g))
    /\ pc' = "have1D"
    /\ g0' = g
    /\ UNCHANGED <<comp, threw, options, g, arrEdited, options0, passes, seed, calls,
                   cloned, op, ret, events, buf>>

\* a source array of m numbers, none of them an elevation of the grid
SourceArray(m) == [i1 \in 1..m |-> 50 + i1]

\* fromArray1D with the array toArray1D returned, or with an array of the
\* caller's, shorter or longer than the grid
CallFromArray1D ==
    /\ comp = "adapters" /\ pc \in {"ready", "have1D"}
    /\ \E m \in 0..(Len(g) + MaxExtra + 1):
          LET src == IF pc = "have1D" THEN arr ELSE Strict(SourceArray(m))
              r == fromArray1D(g, src)
          IN  /\ pc = "have1D" => m = 0
              /\ arr' = src
              /\ g' = Strict(r.g)
              /\ threw' = r.threw
              /\ pc' = IF r.threw = "none" THEN "wrote1D" ELSE "threw1D"
    /\ g0' = g
    /\ UNCHANGED <<comp, options, arrEdited, options0, passes, seed, calls, cloned, op,
                   ret, events, buf>>

\* a source of xl arrays of yl numbers each, none an elevation of the grid
SourceArray2D(xl, yl) ==
    [i1 \in 1..xl |-> [j1 \in 1..yl |-> 50 + 10 * i1 + j1]]

\* fromArray2D with a 2D array of the caller's, of any shape
CallFromArray2DOfCaller ==
    /\ comp = "adapters" /\ pc = "ready"
    /\ \E xl \in 1..(MaxSeg + 1), yl \in 1..(MaxSeg + 1):
          LET src == SourceArray2D(xl, yl)
              r == fromArray2D(g, src)
          IN  /\ arr' = src
              /\ g' = Strict(r.g)
              /\ threw' = r.threw
              /\ pc' = IF r.threw = "none" THEN "wroteSource2D" ELSE "threwSource2D"
    /\ g0' = g
    /\ UNCHANGED <<comp, options, arrEdited, options0, passes, seed, calls, cloned, op,
                   ret, events, buf>>

NextAdapters ==
    \/ CallToArray2D
    \/ EditBuffer
    \/ CallFromArray2D
    \/ CallToArray1D
    \/ CallFromArray1D
    \/ CallFromArray2DOfCaller

SpecAdapters == InitAdapters /\ [][NextAdapters]_vars

(***************************************************************************)
(* The caller of MultiPass and of the four shipped compositions.  Heights  *)
(* are multiples of HeightUnit, so that every amplitude of the model       *)
(* scales the window exactly.                                              *)
(***************************************************************************)
MaxPasses == 2
MaxSeed == 2

HeightUnit == 2 * AmpDen

MultiPassPlanes == {<<1, 1>>, <<2, 1>>}

PassMethods == {"CurveOne", "CurveFloorSum", "OptionsWriter", "SmoothMedian"}
PassAmplitudes == {Undefined, <<AmpDen \div 2>>}
PassFrequencies == {Undefined, <<5 * FreqDen>>}

PassAlphabet ==
    {Pass(m, a, f) : m \in PassMethods, a \in PassAmplitudes, f \in PassFrequencies}

PassLists == UNION {[1..n -> PassAlphabet] : n \in 0..MaxPasses}

InitMultiPass ==
    /\ comp = "multipass"
    /\ pc = "ready"
    /\ threw = "none"
    /\ \E pl \in MultiPassPlanes, lo \in {-HeightUnit, 0}, pat \in {0, 1}:
          /\ options = MakeOptions(pl[1], pl[2], lo, lo + 2 * HeightUnit, FreqDen)
          /\ g = MakeGrid(pl[1], pl[2], 0, pat)
    /\ g0 = g
    /\ arr = <<>>
    /\ arrEdited = FALSE
    /\ options0 = options
    /\ passes = <<>>
    /\ seed \in 0..MaxSeed
    /\ calls = <<>>
    /\ cloned = options
    /\ op = "none"
    /\ ret = <<>>
    /\ events = <<>>
    /\ buf = <<>>

\* the caller's state after a call that returned (or threw) res
AfterMultiPass(name, ps, res) ==
    /\ op' = name
    /\ passes' = Strict(ps)
    /\ g' = Strict(res.g)
    /\ threw' = res.threw
    /\ calls' = res.calls
    /\ options' = res.heap.base
    /\ cloned' = res.heap.cloned
    /\ events' = res.events
    /\ pc' = "done"
    /\ UNCHANGED <<comp, g0, arr, arrEdited, options0, seed, ret, buf>>

CallMultiPass ==
    /\ comp = "multipass" /\ pc = "ready"
    /\ \E ps \in PassLists:
          AfterMultiPass("MultiPass", ps, MultiPass(g, options, Strict(ps), seed))

CallCosineLayers ==
    /\ comp \in {"multipass", "generators"} /\ pc = "ready"
    /\ AfterMultiPass("CosineLayers", CosineLayersPasses, CosineLayers(g, options, seed))

CallPerlinDiamond ==
    /\ comp \in {"multipass", "generators"} /\ pc = "ready"
    /\ AfterMultiPass("PerlinDiamond", PerlinDiamondPasses, PerlinDiamond(g, options, seed))

CallPerlinLayers ==
    /\ comp \in {"multipass", "generators"} /\ pc = "ready"
    /\ AfterMultiPass("PerlinLayers", PerlinLayersPasses, PerlinLayers(g, options, seed))

CallSimplexLayers ==
    /\ comp \in {"multipass", "generators"} /\ pc = "ready"
    /\ AfterMultiPass("SimplexLayers", SimplexLayersPasses, SimplexLayers(g, options, seed))

NextMultiPass ==
    \/ CallMultiPass
    \/ CallCosineLayers
    \/ CallPerlinDiamond
    \/ CallPerlinLayers
    \/ CallSimplexLayers

SpecMultiPass == InitMultiPass /\ [][NextMultiPass]_vars

(***************************************************************************)
(* The caller of one generator, on a grid that may hold more vertices      *)
(* than the plane has.  generateFromValueNoise works on a buffer of        *)
(* ((max + 1)^2 + 1)^2 numbers, so it is called on the planes of           *)
(* NoisePlanes only.                                                       *)
(***************************************************************************)
NoisePlanes == {<<1, 1>>, <<1, 2>>, <<2, 1>>, <<2, 2>>}

InitGenerators ==
    /\ comp = "generators"
    /\ pc = "ready"
    /\ threw = "none"
    /\ \E ws \in SegRange, hs \in SegRange, extra \in 0..MaxExtra, pat \in 0..MaxPattern:
          /\ options = MakeOptions(ws, hs, -HeightUnit, HeightUnit, (5 * FreqDen) \div 2)
          /\ g = MakeGrid(ws, hs, extra, pat)
    /\ g0 = g
    /\ arr = <<>>
    /\ arrEdited = FALSE
    /\ options0 = options
    /\ passes = <<>>
    /\ seed \in 0..MaxSeed
    /\ calls = <<>>
    /\ cloned = options
    /\ op = "none"
    /\ ret = <<>>
    /\ events = <<>>
    /\ buf = <<>>

\* the caller's state after a generator returned (or threw) res
AfterGenerator(name, res) ==
    /\ op' = name
    /\ g' = Strict(res.g)
    /\ threw' = res.threw
    /\ events' = MethodCalls(name, g, options, seed)
    /\ buf' = MethodBuffer(name, g, options, seed)
    /\ pc' = "done"
    /\ UNCHANGED <<comp, options, g0, arr, arrEdited, options0, passes, seed, calls, cloned,
                   ret>>

CallCurve ==
    /\ comp = "generators" /\ pc = "ready"
    /\ \E curve \in {"one", "floorSum"}:
          AfterGenerator(IF curve = "one" THEN "CurveOne" ELSE "CurveFloorSum",
                         Curve(g, options, curve))

CallCosine ==
    /\ comp = "generators" /\ pc = "ready"
    /\ AfterGenerator("Cosine", Cosine(g, options, seed))

CallDiamondSquare ==
    /\ comp = "generators" /\ pc = "ready"
    /\ AfterGenerator("DiamondSquare", DiamondSquare(g, options, seed))

CallFault ==
    /\ comp = "generators" /\ pc = "ready"
    /\ AfterGenerator("Fault", Fault(g, options, seed))

CallPerlin ==
    /\ comp = "generators" /\ pc = "ready"
    /\ AfterGenerator("Perlin", Perlin(g, options, seed))

CallSimplex ==
    /\ comp = "generators" /\ pc = "ready"
    /\ AfterGenerator("Simplex", Simplex(g, options, seed))

CallGenerateFromValueNoise ==
    /\ comp = "generators" /\ pc = "ready"
    /\ <<options.widthSegments, options.heightSegments>> \in NoisePlanes
    /\ AfterGenerator("generateFromValueNoise", generateFromValueNoise(g, options, seed))

CallWeierstrass ==
    /\ comp = "generators" /\ pc = "ready"
    /\ AfterGenerator("Weierstrass", Weierstrass(g, options, seed))

NextGenerators ==
    \/ CallCurve
    \/ CallCosine
    \/ CallDiamondSquare
    \/ CallFault
    \/ CallPerlin
    \/ CallSimplex
    \/ CallGenerateFromValueNoise
    \/ CallWeierstrass
    \/ CallCosineLayers
    \/ CallPerlinDiamond
    \/ CallPerlinLayers
    \/ CallSimplexLayers

SpecGenerators == InitGenerators /\ [][NextGenerators]_vars

(***************************************************************************)
(* The caller of normalizeTerrain.                                         *)
(***************************************************************************)
MaxSteps == 3

StepsValues == {Undefined} \cup {<<n>> : n \in 0..MaxSteps}
AfterValues == {"undefined", "notAFunction", "hook", "throwingHook"}

InitNormalize ==
    /\ comp = "normalize"
    /\ pc = "ready"
    /\ threw = "none"
    /\ \E ws \in SegRange, extra \in 0..MaxExtra, pat \in 1..MaxPattern,
          turbulent \in BOOLEAN, steps \in StepsValues, stretch \in BOOLEAN,
          easing \in {"Linear", "EaseIn"}, after \in AfterValues:
          /\ options = [MakeOptions(ws, 1, -HeightUnit, HeightUnit, FreqDen)
                            EXCEPT !.turbulent = turbulent, !.steps = steps,
                                   !.stretch = stretch, !.easing = easing,
                                   !.after = after]
          /\ g = MakeGrid(ws, 1, extra, pat)
    /\ g0 = g
    /\ arr = <<>>
    /\ arrEdited = FALSE
    /\ options0 = options
    /\ passes = <<>>
    /\ seed = 0
    /\ calls = <<>>
    /\ cloned = options
    /\ op = "none"
    /\ ret = <<>>
    /\ events = <<>>
    /\ buf = <<>>

CallNormalizeTerrain ==
    /\ comp = "normalize" /\ pc = "ready"
    /\ LET res == normalizeTerrain(g, options)
       IN  /\ g' = Strict(res.g)
           /\ threw' = res.threw
           /\ calls' = res.calls
    /\ op' = "normalizeTerrain"
    /\ pc' = "done"
    /\ UNCHANGED <<comp, options, g0, arr, arrEdited, options0, passes, seed, cloned, ret, events, buf>>

NextNormalize == CallNormalizeTerrain

SpecNormalize == InitNormalize /\ [][NextNormalize]_vars

(***************************************************************************)
(* A caller of the easing functions: one easing applied to one x = n / d   *)
(* of [0, 1], held in arr as <<n, d>>; ret is the value as <<num, den>>.   *)
(***************************************************************************)
MaxEaseDen == 4

Easings == {"Linear", "EaseIn", "EaseOut", "EaseInOut", "InEaseOut",
            "EaseInWeak", "EaseInStrong"}

InitEasing ==
    /\ comp = "easing"
    /\ pc = "ready"
    /\ threw = "none"
    /\ \E easing \in Easings:
          options = [MakeOptions(1, 1, -HeightUnit, HeightUnit, FreqDen)
                        EXCEPT !.easing = easing]
    /\ \E d \in 1..MaxEaseDen: \E n \in 0..d: arr = <<n, d>>
    /\ g = <<>>
    /\ g0 = g
    /\ arrEdited = FALSE
    /\ options0 = options
    /\ passes = <<>>
    /\ seed = 0
    /\ calls = <<>>
    /\ cloned = options
    /\ op = "none"
    /\ ret = <<>>
    /\ events = <<>>
    /\ buf = <<>>

CallEasing ==
    /\ comp = "easing" /\ pc = "ready"
    /\ ret' = <<EaseNum(options.easing, arr[1], arr[2]), EaseDen(options.easing, arr[2])>>
    /\ op' = options.easing
    /\ pc' = "done"
    /\ UNCHANGED <<comp, threw, options, g, g0, arr, arrEdited, options0, passes, seed,
                   calls, cloned, events, buf>>

NextEasing == CallEasing

SpecEasing == InitEasing /\ [][NextEasing]_vars

(***************************************************************************)
(* A caller that hands a generator a vertex array one vertex shorter or    *)
(* one vertex longer than the plane of its options.                        *)
(***************************************************************************)
MismatchMethods == {"CurveOne", "Cosine", "DiamondSquare", "Fault", "Perlin", "Simplex"}

InitMismatch ==
    /\ comp = "mismatch"
    /\ pc = "ready"
    /\ threw = "none"
    /\ \E ws \in SegRange, hs \in SegRange, extra \in {-1, 1}, pat \in 1..MaxPattern:
          /\ options = MakeOptions(ws, hs, -HeightUnit, HeightUnit, (5 * FreqDen) \div 2)
          /\ g = MakeGrid(ws, hs, extra, pat)
    /\ g0 = g
    /\ arr = <<>>
    /\ arrEdited = FALSE
    /\ options0 = options
    /\ passes = <<>>
    /\ seed \in 0..MaxSeed
    /\ calls = <<>>
    /\ cloned = options
    /\ op = "none"
    /\ ret = <<>>
    /\ events = <<>>
    /\ buf = <<>>

CallWithMismatch ==
    /\ comp = "mismatch" /\ pc = "ready"
    /\ \E method \in MismatchMethods:
          AfterGenerator(method, InvokeMethod(method, g, options, seed))

NextMismatch == CallWithMismatch

SpecMismatch == InitMismatch /\ [][NextMismatch]_vars

(***************************************************************************)
(* The whole program: any one of the callers.                              *)
(***************************************************************************)
Init ==
    \/ InitAdapters
    \/ InitMultiPass
    \/ InitGenerators
    \/ InitNormalize
    \/ InitEasing
    \/ InitMismatch

Next ==
    \/ NextAdapters
    \/ NextMultiPass
    \/ NextGenerators
    \/ NextNormalize
    \/ NextEasing
    \/ NextMismatch

Spec == Init /\ [][Next]_vars

(***************************************************************************)
(* C1: on a grid of (widthSegments+1)*(heightSegments+1) vertices,         *)
(* toArray2D followed by fromArray2D of the unmodified buffer raises       *)
(* nothing and leaves every vertex (its elevation included) as it was.     *)
(***************************************************************************)
RoundTrip2D ==
    (comp = "adapters" /\ ~arrEdited /\ Len(g0) = ExpectedLength(options)
        /\ pc \in {"wrote2D", "threw"})
    => (pc = "wrote2D" /\ threw = "none" /\ g = g0)

\* a round trip completed on a non-square grid whose elevations all differ
RoundTrip2DWitness ==
    /\ comp = "adapters" /\ pc = "wrote2D" /\ ~arrEdited
    /\ Len(g0) = ExpectedLength(options)
    /\ options.widthSegments # options.heightSegments
    /\ \A a, b \in 1..Len(g0): a # b => g0[a].z # g0[b].z

(***************************************************************************)
(* C2: when every pass's method adds to each vertex a value that only the  *)
(* vertex index and the options it receives determine (the values of       *)
(* Math.random() being held fixed), the grid MultiPass leaves is the       *)
(* grid it was given plus, vertex by vertex, the sum of what each pass's   *)
(* method leaves on a zero grid under the options that pass received.      *)
(***************************************************************************)
MultiPassAdditive ==
    LET additive == {"CurveOne", "CurveFloorSum", "Cosine", "Perlin", "Simplex",
                     "DiamondSquare", "Fault"}
        alone == [i \in 1..Len(passes) |->
                    Elevations(InvokeMethod(passes[i].method, ZeroGrid(g0),
                                            calls[i].o, seed + i - 1).g)]
        total[i \in 0..Len(passes)] ==
            IF i = 0 THEN [k \in 1..Len(g0) |-> 0]
            ELSE [k \in 1..Len(g0) |-> total[i - 1][k] + alone[i][k]]
    IN  (comp = "multipass" /\ pc = "done"
            /\ \A i \in 1..Len(passes): passes[i].method \in additive)
        => /\ threw = "none"
           /\ Len(calls) = Len(passes)
           /\ Len(g) = Len(g0)
           /\ \A k \in 1..Len(g0): g[k].z = g0[k].z + total[Len(passes)][k]

\* two different curves composed, the second at half amplitude, on a grid
\* that was not flat
MultiPassAdditiveWitness ==
    /\ comp = "multipass" /\ pc = "done" /\ op = "MultiPass"
    /\ Len(passes) = 2
    /\ passes[1].method = "CurveFloorSum" /\ passes[2].method = "CurveOne"
    /\ passes[2].amplitude = <<AmpDen \div 2>>
    /\ \E k \in 1..Len(g0): g0[k].z # 0
    /\ \A k \in 1..Len(g0): g[k].z # g0[k].z

(***************************************************************************)
(* C3: every pass is handed a height window with the centre of the base    *)
(* window and amplitude (1 when the pass gives none) times its width, and  *)
(* the frequency of the pass, or the base frequency when the pass gives    *)
(* none, whatever the pass before it was given.                            *)
(***************************************************************************)
PassWindow ==
    (comp = "multipass" /\ pc = "done")
    => \A i \in 1..Len(calls):
          LET o == calls[i].o
              amp == IF passes[i].amplitude = <<>> THEN AmpDen
                     ELSE passes[i].amplitude[1]
          IN  /\ i <= Len(passes)
              /\ o.maxHeight + o.minHeight = options0.maxHeight + options0.minHeight
              /\ (o.maxHeight - o.minHeight) * AmpDen
                    = amp * (options0.maxHeight - options0.minHeight)
              /\ o.frequency = IF passes[i].frequency = <<>> THEN options0.frequency
                               ELSE passes[i].frequency[1]

\* a pass with an amplitude and a frequency of its own, followed by a pass
\* that gives neither
PassWindowWitness ==
    /\ comp = "multipass" /\ pc = "done" /\ Len(calls) = 2
    /\ passes[1].amplitude # <<>> /\ passes[1].amplitude # <<AmpDen>>
    /\ passes[1].frequency # <<>> /\ passes[1].frequency # <<options0.frequency>>
    /\ passes[2].amplitude = <<>> /\ passes[2].frequency = <<>>
    /\ calls[1].o.maxHeight < options0.maxHeight

(***************************************************************************)
(* C4: MultiPass invokes the method of every pass exactly once, in the     *)
(* order of the list, each on the one vertex grid as the pass before left  *)
(* it, and nothing else; for the empty list it invokes nothing and leaves  *)
(* the grid as it was.                                                     *)
(***************************************************************************)
PassesInOrder ==
    (comp = "multipass" /\ pc = "done")
    => /\ threw = "none"
       /\ Len(calls) = Len(passes)
       /\ \A i \in 1..Len(calls):
             /\ calls[i].method = passes[i].method
             /\ calls[i].gIn = IF i = 1 THEN Elevations(g0) ELSE calls[i - 1].gOut
       /\ Elevations(g) = IF calls = <<>> THEN Elevations(g0)
                          ELSE calls[Len(calls)].gOut
       /\ (passes = <<>> => g = g0)

\* a smoothing pass after a curve: the two orders leave different grids
PassesInOrderWitness ==
    /\ comp = "multipass" /\ pc = "done" /\ Len(calls) = 2
    /\ calls[1].method = "CurveFloorSum" /\ calls[2].method = "SmoothMedian"
    /\ calls[1].gOut # calls[1].gIn
    /\ calls[2].gOut # calls[2].gIn

(***************************************************************************)
(* C5: every pass's method sees the base options' values in every field    *)
(* other than maxHeight, minHeight and frequency, even when the method of  *)
(* an earlier pass assigned fields of the options object it was handed.    *)
(***************************************************************************)
PassesSeeBaseFields ==
    (comp = "multipass" /\ pc = "done")
    => \A i \in 1..Len(calls):
          \A f \in DOMAIN options0 \ {"maxHeight", "minHeight", "frequency"}:
             calls[i].o[f] = options0[f]

(***************************************************************************)
(* C6: the options object handed to MultiPass, or to one of CosineLayers,  *)
(* PerlinDiamond, PerlinLayers and SimplexLayers, is after the call what   *)
(* it was before it.                                                       *)
(***************************************************************************)
BaseOptionsKept ==
    (comp = "multipass" /\ pc = "done") => options = options0

\* a pass with a window and a frequency of its own whose method assigns
\* fields of the options it is handed
BaseOptionsKeptWitness ==
    /\ comp = "multipass" /\ pc = "done"
    /\ \E i \in 1..Len(passes):
          /\ passes[i].method = "OptionsWriter"
          /\ passes[i].amplitude # <<>> /\ passes[i].frequency # <<>>
    /\ cloned.steps # options0.steps
    /\ cloned # options0

(***************************************************************************)
(* C7, as the code has it: Curve, Cosine, DiamondSquare, Fault, Perlin and *)
(* Simplex add their contribution to the elevations they find; Weierstrass *)
(* and generateFromValueNoise add theirs and then hand the whole grid to   *)
(* applyTerrainClamp, so what they leave is the clamp of the sum.          *)
(***************************************************************************)
GeneratorsAddThenClamp ==
    LET flat == ZeroGrid(g0)
        plus(contribution) ==
            [k \in 1..Len(g0) |-> [g0[k] EXCEPT !.z = @ + contribution[k].z]]
    IN  (comp = "generators" /\ pc = "done")
        => /\ threw = "none"
           /\ op \in {"CurveOne", "CurveFloorSum", "Cosine", "DiamondSquare", "Fault",
                      "Perlin", "Simplex"}
                => g = plus(InvokeMethod(op, flat, options, seed).g)
           /\ op = "Weierstrass"
                => g = applyTerrainClamp(plus(WeierstrassLoop(flat, options, seed).g),
                                         options)
           /\ op = "generateFromValueNoise"
                => g = applyTerrainClamp(plus(ValueNoiseLayers(flat, options, seed).g),
                                         ValueNoiseClampOptions(options))

\* Fault on a grid that was not flat
GeneratorsAddThenClampWitness ==
    /\ comp = "generators" /\ pc = "done" /\ op = "Fault"
    /\ \E k \in 1..Len(g0): g0[k].z # 0
    /\ g # g0

\* C7 as stated: every generator, Weierstrass and generateFromValueNoise
\* included, leaves z0 + f on every vertex, f being what it leaves on a
\* zero grid
EveryGeneratorAdditive ==
    (comp = "generators" /\ pc = "done"
        /\ op \in {"CurveOne", "CurveFloorSum", "Cosine", "DiamondSquare", "Fault",
                   "Perlin", "Simplex", "Weierstrass", "generateFromValueNoise"})
    => \A k \in 1..Len(g0):
          g[k].z = g0[k].z + InvokeMethod(op, ZeroGrid(g0), options, seed).g[k].z

NormalizeStages ==
    LET want == (IF options0.turbulent THEN <<"applyTurbulenceTurbulence">> ELSE <<>>)
                \o (IF options0.steps # <<>> /\ options0.steps[1] > 1
                    THEN <<"applyTerrainStep", "applyTerrainSmooth">> ELSE <<>>)
                \o <<"applyTerrainClamp">>
                \o (IF options0.after \in {"hook", "throwingHook"}
                    THEN <<"after">> ELSE <<>>)
    IN  (comp = "normalize" /\ pc = "done")
        => /\ Len(calls) = Len(want)
           /\ \A i \in 1..Len(calls):
                 /\ calls[i].fn = want[i]
                 /\ calls[i].o = options0
                 /\ calls[i].gIn = IF i = 1 THEN Elevations(g0) ELSE calls[i - 1].gOut
           /\ Elevations(g) = calls[Len(calls)].gOut
           /\ options = options0

\* all five stages ran
NormalizeStagesWitness ==
    /\ comp = "normalize" /\ pc = "done" /\ threw = "none"
    /\ options0.turbulent /\ options0.steps = <<2>> /\ options0.after = "hook"
    /\ Len(calls) = 5
    /\ \A i \in 1..5: calls[i].gOut # calls[i].gIn

(***************************************************************************)
(* C10: when the after hook throws, normalizeTerrain lets the error reach  *)
(* its caller, has called the hook once, and leaves the grid as the hook   *)
(* left it: filtered, with what the hook wrote before it threw.            *)
(***************************************************************************)
HookFailurePropagates ==
    (comp = "normalize" /\ pc = "done" /\ options0.after = "throwingHook")
    => /\ threw = "HookError"
       /\ Cardinality({i \in 1..Len(calls): calls[i].fn = "after"}) = 1
       /\ calls[Len(calls)].fn = "after"
       /\ Elevations(g) = calls[Len(calls)].gOut
       /\ g[1].z = calls[Len(calls)].gIn[1] + 1
       /\ calls[Len(calls)].gIn = calls[Len(calls) - 1].gOut

\* the hook threw after the step, smoothing and clamp filters had changed
\* the grid
HookFailurePropagatesWitness ==
    /\ comp = "normalize" /\ pc = "done" /\ threw = "HookError"
    /\ options0.steps = <<3>>
    /\ Len(calls) = 4
    /\ calls[3].gOut # Elevations(g0)
    /\ Elevations(g) # Elevations(g0)

(***************************************************************************)
(* C11: fromArray1D raises nothing whatever the two lengths are: for a     *)
(* grid of n vertices and a source of m numbers it writes source[i] into   *)
(* vertex i for the indices i < min(n, m) and leaves every other vertex's  *)
(* elevation, and every x and y, as it was.                                *)
(***************************************************************************)
FromArray1DTruncates ==
    (comp = "adapters" /\ pc \in {"wrote1D", "threw1D"})
    => /\ pc = "wrote1D" /\ threw = "none"
       /\ Len(g) = Len(g0)
       /\ \A k \in 1..Len(g0):
             /\ g[k].x = g0[k].x /\ g[k].y = g0[k].y
             /\ g[k].z = IF k <= Len(arr) THEN arr[k] ELSE g0[k].z

\* a source longer than the grid, on a grid that was not flat
FromArray1DTruncatesWitness ==
    /\ comp = "adapters" /\ pc = "wrote1D"
    /\ Len(arr) > Len(g0)
    /\ \A k \in 1..Len(g0): g0[k].z # 0 /\ g[k].z = arr[k]

(***************************************************************************)
(* C12: when the grid holds fewer vertices than the source 2D array has    *)
(* cells, fromArray2D raises nothing and writes exactly the cells that     *)
(* have a vertex: src[i][j] into vertex j * xl + i when the grid holds     *)
(* that vertex, every elevation staying what it was otherwise.             *)
(***************************************************************************)
FromArray2DTruncates ==
    (comp = "adapters" /\ pc \in {"wroteSource2D", "threwSource2D"}
        /\ Len(g0) < Len(arr) * Len(arr[1]))
    => /\ threw = "none"
       /\ \A k \in 1..Len(g0):
             LET i == (k - 1) % Len(arr)
                 j == (k - 1) \div Len(arr)
             IN  g[k].z = IF j < Len(arr[1]) THEN arr[i + 1][j + 1] ELSE g0[k].z

\* the call with a source of more cells than the grid has vertices
FromArray2DShortGrid ==
    /\ comp = "adapters" /\ pc = "threwSource2D"
    /\ Len(g0) < Len(arr) * Len(arr[1])
    /\ threw = "TypeError"
    /\ g # g0

(***************************************************************************)
(* C13: each of the seven easing functions is exactly 0 at 0 and exactly   *)
(* 1 at 1, and EaseIn is exactly 1/4 at 1/2.                               *)
(***************************************************************************)
EasingEndpoints ==
    (comp = "easing" /\ pc = "done")
    => /\ op \in Easings
       /\ ret[2] > 0
       /\ arr[1] = 0 => ret[1] = 0
       /\ arr[1] = arr[2] => ret[1] = ret[2]
       /\ (op = "EaseIn" /\ 2 * arr[1] = arr[2]) => 4 * ret[1] = ret[2]

\* InEaseOut, the one easing with a constant term, applied to 0
EasingEndpointsWitness ==
    /\ comp = "easing" /\ pc = "done"
    /\ op = "InEaseOut" /\ arr = <<0, 3>>
    /\ ret = <<0, 54>>

(***************************************************************************)
(* C14: a generator handed a vertex array whose length is not              *)
(* (widthSegments + 1) * (heightSegments + 1) raises an error and leaves   *)
(* every vertex as it was, whether the array is shorter or longer.         *)
(***************************************************************************)
GeneratorsRejectMismatch ==
    (comp = "mismatch" /\ pc = "done")
    => /\ Len(g0) # ExpectedLength(options0)
       /\ threw # "none"
       /\ g = g0

\* Cosine on an array one vertex short: it raised after it wrote vertices
CosineOnShortGrid ==
    /\ comp = "mismatch" /\ pc = "done" /\ op = "Cosine"
    /\ Len(g0) < ExpectedLength(options0)
    /\ threw = "TypeError"
    /\ g # g0

\* Perlin on an array one vertex long: it returned
PerlinOnLongGrid ==
    /\ comp = "mismatch" /\ pc = "done" /\ op = "Perlin"
    /\ Len(g0) > ExpectedLength(options0)
    /\ threw = "none"

(***************************************************************************)
(* C15: from an all-zero grid and a base window centred on 0, when every   *)
(* pass's method adds to each vertex at most half the width of the window  *)
(* it was handed, every elevation MultiPass leaves is within the base      *)
(* [minHeight, maxHeight].                                                 *)
(***************************************************************************)
MultiPassWithinBounds ==
    LET Abs(v) == IF v < 0 THEN -v ELSE v
    IN  (comp = "multipass" /\ pc = "done" /\ threw = "none"
            /\ g0 = ZeroGrid(g0)
            /\ options0.minHeight = -options0.maxHeight
            /\ \A i \in 1..Len(calls): \A k \in 1..Len(g0):
                  2 * Abs(calls[i].gOut[k] - calls[i].gIn[k])
                      <= calls[i].o.maxHeight - calls[i].o.minHeight)
        => \A k \in 1..Len(g):
              options0.minHeight <= g[k].z /\ g[k].z <= options0.maxHeight

\* the constant curve composed with itself at half amplitude
MultiPassAboveWindow ==
    /\ comp = "multipass" /\ pc = "done" /\ op = "MultiPass" /\ threw = "none"
    /\ g0 = ZeroGrid(g0)
    /\ options0.minHeight = -options0.maxHeight
    /\ Len(passes) = 2
    /\ passes[1] = Pass("CurveOne", Undefined, Undefined)
    /\ passes[2] = Pass("CurveOne", <<AmpDen \div 2>>, Undefined)
    /\ \A k \in 1..Len(g): 2 * g[k].z = 3 * options0.maxHeight

\* a shipped composition leaving an elevation outside the base window
ShippedAboveWindow ==
    /\ comp = "multipass" /\ pc = "done" /\ threw = "none"
    /\ op \in {"PerlinLayers", "SimplexLayers", "PerlinDiamond", "CosineLayers"}
    /\ g0 = ZeroGrid(g0)
    /\ options0.minHeight = -options0.maxHeight
    /\ \E k \in 1..Len(g): g[k].z > options0.maxHeight \/ g[k].z < options0.minHeight

(***************************************************************************)
(* C16: every run of Perlin or Simplex calls seed once, with the first     *)
(* random value of that run, before its first sample and not again; in a   *)
(* composition each noise pass does so in turn, so the calls to ./noise    *)
(* are seed, one sample per point of the plane, seed, samples, ... and a   *)
(* method that is not a noise method calls none.                           *)
(***************************************************************************)
NoiseSeededOncePerRun ==
    LET methods == IF passes # <<>> THEN [i \in 1..Len(passes) |-> passes[i].method]
                   ELSE <<op>>
        kind(m) == IF m = "Perlin" THEN "perlin" ELSE "simplex"
        noise == {i \in 1..Len(methods): methods[i] \in {"Perlin", "Simplex"}}
        yl == options0.heightSegments + 1
        n == ExpectedLength(options0)
    IN  (comp = "generators" /\ pc = "done" /\ threw = "none")
        => /\ Len(events) = Cardinality(noise) * (n + 1)
           /\ \A i \in noise:
                 LET first == Cardinality({j \in noise: j < i}) * (n + 1) + 1
                 IN  /\ events[first] = SeedCall(Rand(seed + i - 1, 0))
                     /\ \A e \in 1..n:
                           events[first + e]
                               = SampleCall(kind(methods[i]), (e - 1) \div yl, (e - 1) % yl)

\* PerlinDiamond: a noise pass followed by two passes that are not
NoiseSeededOncePerRunWitness ==
    /\ comp = "generators" /\ pc = "done" /\ threw = "none"
    /\ op = "PerlinDiamond"
    /\ Len(events) = ExpectedLength(options0) + 1
    /\ events[1].call = "seed" /\ events[2].call = "perlin"

\* SimplexLayers: five noise passes, each seeded with a value of its own
SimplexLayersSeededPerPass ==
    /\ comp = "generators" /\ pc = "done" /\ op = "SimplexLayers"
    /\ Len(events) = 5 * (ExpectedLength(options0) + 1)
    /\ events[1] # events[ExpectedLength(options0) + 2]

DiamondWrapsToWrittenCell ==
    (comp = "generators" /\ pc = "done" /\ op = "DiamondSquare")
    => \A w \in buf.wraps:
          /\ w.x = 0 => (w.left = buf.segments - w.half /\ w.leftWritten)
          /\ w.y = 0 => (w.bottom = buf.segments - w.half /\ w.bottomWritten)

\* a cell of column 0 whose wrapped neighbour is a cell not written yet, one
\* column past segments - half
DiamondWrapsPastWritten ==
    /\ comp = "generators" /\ pc = "done" /\ op = "DiamondSquare"
    /\ \E w \in buf.wraps:
          /\ w.x = 0 /\ w.half = 2
          /\ w.left = buf.segments - w.half + 1
          /\ ~w.leftWritten

(***************************************************************************)
(* C19: when DiamondSquare's generation loop ends, heightmap[segments][y]  *)
(* = heightmap[0][y] for every y in 0..segments - 1 and                    *)
(* heightmap[x][segments] = heightmap[x][0] for every x in                 *)
(* 0..segments - 1; a cell of the far borders has been written exactly     *)
(* when the cell of column 0 or row 0 opposite to it has.                  *)
(***************************************************************************)
OppositeBordersEqual ==
    LET sg == buf.segments
    IN  (comp = "generators" /\ pc = "done" /\ op = "DiamondSquare")
        => /\ \A y \in 0..(sg - 1):
                 /\ buf.hm[<<sg, y>>] = buf.hm[<<0, y>>]
                 /\ <<sg, y>> \in buf.written <=> <<0, y>> \in buf.written
           /\ \A x \in 0..(sg - 1):
                 /\ buf.hm[<<x, sg>>] = buf.hm[<<x, 0>>]
                 /\ <<x, sg>> \in buf.written <=> <<x, 0>> \in buf.written

\* a run that left values other than 0 on both near borders
OppositeBordersEqualWitness ==
    /\ comp = "generators" /\ pc = "done" /\ op = "DiamondSquare"
    /\ buf.segments = 4
    /\ \E y \in 1..3: buf.hm[<<0, y>>] # 0 /\ buf.hm[<<4, y>>] = buf.hm[<<0, y>>]
    /\ \E x \in 1..3: buf.hm[<<x, 0>>] # 0 /\ buf.hm[<<x, 4>>] = buf.hm[<<x, 0>>]

(***************************************************************************)
(* C20: every cell of the buffer that DiamondSquare applies to the grid    *)
(* (columns 0..widthSegments, rows 0..heightSegments) has been assigned by *)
(* the square step, the diamond step or an edge copy.                      *)
(***************************************************************************)
AppliedCellsAssigned ==
    (comp = "generators" /\ pc = "done" /\ op = "DiamondSquare")
    => buf.applied \subseteq buf.written

\* the corner cell, never assigned, applied to vertex 0
CornerAppliedUnassigned ==
    /\ comp = "generators" /\ pc = "done" /\ op = "DiamondSquare"
    /\ <<0, 0>> \in buf.applied \ buf.written
    /\ buf.hm[<<0, 0>>] = 0
    /\ g[1].z = g0[1].z

(***************************************************************************)
(* C21: the total change Fault applies to the elevation of a vertex is at  *)
(* most half the configured range, (maxHeight - minHeight) / 2, in         *)
(* absolute value, also when diagonal * frequency is not an integer.       *)
(***************************************************************************)
FaultWithinHalfRange ==
    (comp = "generators" /\ pc = "done" /\ op = "Fault")
    => \A k \in 1..Len(g):
          /\ 2 * (g[k].z - g0[k].z) <= options0.maxHeight - options0.minHeight
          /\ 2 * (g0[k].z - g[k].z) <= options0.maxHeight - options0.minHeight

\* a run whose number of iterations is above diagonal * frequency and that
\* moved a vertex by more than half the range
FaultPastHalfRange ==
    /\ comp = "generators" /\ pc = "done" /\ op = "Fault"
    /\ FaultLoops(options0) * FaultItDen > FaultItNum(options0)
    /\ \E k \in 1..Len(g):
          2 * (g[k].z - g0[k].z) > options0.maxHeight - options0.minHeight

(***************************************************************************)
(* C22: the working segment length of generateFromValueNoise is the        *)
(* smallest power of two greater than max(widthSegments, heightSegments)   *)
(* + 1, the number of vertices along the longer side of the plane.         *)
(***************************************************************************)
ValueNoiseSegmentsPowerOfTwo ==
    LET most == Max2(options0.widthSegments, options0.heightSegments) + 1
    IN  (comp = "generators" /\ pc = "done" /\ op = "generateFromValueNoise")
        => /\ \E e \in 1..(most + 1): buf.segments = 2 ^ e
           /\ buf.segments > most
           /\ buf.segments \div 2 <= most

\* a plane of three vertices along its longer side: 9, the square
ValueNoiseSegmentsSquare ==
    /\ comp = "generators" /\ pc = "done" /\ op = "generateFromValueNoise"
    /\ Max2(options0.widthSegments, options0.heightSegments) = 2
    /\ buf.segments = 9

WhiteNoiseReadsFirstCell ==
    /\ comp = "generators" /\ pc = "done" /\ op = "generateFromValueNoise"
    /\ \E rd \in buf.reads:
          /\ rd.inc = 1 /\ rd.i = buf.segments /\ rd.j = 0
          /\ rd.b # rd.t /\ rd.c = rd.t
          /\ ~rd.usedB

\* no cell is interpolated from a neighbour off the sample grid
WhiteNoiseOffGridNeighboursUnused ==
    (comp = "generators" /\ pc = "done" /\ op = "generateFromValueNoise")
    => \A rd \in buf.reads:
          /\ rd.i - rd.inc < 0 => ~rd.usedL /\ ~rd.usedC
          /\ rd.j - rd.inc < 0 => ~rd.usedB /\ ~rd.usedC

====
